---- MODULE Spec2Model ----
(***************************************************************************)
(* youtube-ass.py: conversion of Youtube XML annotations to the ASS        *)
(* subtitle format.  The model follows one run of the script: the fetch,   *)
(* YoutubeAss.__init__ (fromstring, _parse_xml, _write_styles,             *)
(* _write_events) and YoutubeAss.save.                                     *)
(*                                                                         *)
(* Representation.                                                         *)
(*  - A Python float is an integer count of halves (Fl(45) is 45.0, 99 is  *)
(*    49.5); every float the model handles is a multiple of 0.5, which     *)
(*    binary floating point represents exactly.                            *)
(*  - A dict is a function whose domain is its key set.                    *)
(*  - A text that is built line by line is the sequence of its lines, each *)
(*    line standing for itself followed by "\n".                           *)
(*  - The document is supplied one <annotation> element at a time: the     *)
(*    iterator of the for loop in _parse_xml yields any element of         *)
(*    Annotation, at most MaxAnnotations times.                            *)
(***************************************************************************)
EXTENDS Integers, Sequences, FiniteSets, TLC

VARIABLES pc, err, py, each, n, events, styles, out,
          V4_Styles, Events, done_s, done_e, file, w, args, ret

vars == <<pc, err, py, each, n, events, styles, out,
          V4_Styles, Events, done_s, done_e, file, w, args, ret>>

\* ------------------------------------------------------------------ bounds
\* number of <annotation> elements in the document
MaxAnnotations == 2
\* number of region entries inside a <movingRegion>
MaxBoxes == 2

\* ------------------------------------------------------- Python's values
None == [none |-> TRUE]

width == 100
height == 100

\* the float of an integer
Fl(k) == 2 * k

\* str() of a float, as "{MarginL}".format(...) renders it: 80.0 -> "80.0"
FloatStr(v) ==
    LET a == IF v < 0 THEN 0 - v ELSE v
    IN  (IF v < 0 THEN "-" ELSE "") \o ToString(a \div 2)
          \o (IF a % 2 = 0 THEN ".0" ELSE ".5")

\* float() of the attribute strings the documents below use
Float == [s \in {"0", "10", "20", "49.5", "50", "90"} |->
            CASE s = "0"    -> Fl(0)
              [] s = "10"   -> Fl(10)
              [] s = "20"   -> Fl(20)
              [] s = "49.5" -> 99
              [] s = "50"   -> Fl(50)
              [] s = "90"   -> Fl(90)]

\* code points of the t attribute strings the documents below use
Codes == [s \in {"1000", "2000", "900", "never"} |->
            CASE s = "1000"  -> <<49, 48, 48, 48>>
              [] s = "2000"  -> <<50, 48, 48, 48>>
              [] s = "900"   -> <<57, 48, 48>>
              [] s = "never" -> <<110, 101, 118, 101, 114>>]

RECURSIVE LexLess(_, _)
LexLess(a, b) ==
    IF b = <<>> THEN FALSE
    ELSE IF a = <<>> THEN TRUE
    ELSE IF Head(a) # Head(b) THEN Head(a) < Head(b)
    ELSE LexLess(Tail(a), Tail(b))

\* a < b on Python strings
StrLess(a, b) == LexLess(Codes[a], Codes[b])

\* min(a, b) and max(a, b) on Python strings
StrMin(a, b) == IF StrLess(b, a) THEN b ELSE a
StrMax(a, b) == IF StrLess(a, b) THEN b ELSE a

\* d.update(m)
Update(d, m) ==
    [k \in DOMAIN d \cup DOMAIN m |-> IF k \in DOMAIN m THEN m[k] ELSE d[k]]

\* text.encode('utf-8'): a str under Python 2, a bytes object under Python 3
Encode(s, v) == [type |-> IF v = 3 THEN "bytes" ELSE "str", val |-> s.str]

\* "{Text}".format(Text=t): bytes are rendered by their repr
FormatText(t) == IF t.type = "bytes" THEN "b'" \o t.val \o "'" ELSE t.val

\* ------------------------------------------------------------ _get_pos
_get_pos_centre(x, y, w_, h) ==
    LET cx == x + w_ \div 2
        cy == y + h \div 2
        lr == <<x, Fl(width) - x - w_>>
        col(l, c, r) == IF cx < Fl(width \div 2) THEN l
                        ELSE IF cx > Fl(width \div 2) THEN r ELSE c
    IN  IF cy < Fl(height \div 2)
          THEN <<col(7, 8, 9), lr \o <<y>>>>
        ELSE IF cy > Fl(height \div 2)
          THEN <<col(1, 2, 3), lr \o <<Fl(height) - y - h>>>>
        ELSE <<col(4, 5, 6), lr \o <<0>>>>

_get_pos_inclusive(x, y, w_, h) ==
    LET margins == <<x, Fl(width) - x - w_>>
    IN  IF y <= Fl(height \div 2)
          THEN IF x < Fl(width \div 2) THEN <<7, margins \o <<y>>>>
               ELSE IF x > Fl(width \div 2) THEN <<9, margins \o <<y>>>>
               ELSE <<8, margins \o <<y>>>>
        ELSE IF x < Fl(width \div 2) THEN <<1, margins \o <<Fl(height) - y - h>>>>
             ELSE IF x > Fl(width \div 2) THEN <<3, margins \o <<Fl(height) - y - h>>>>
             ELSE <<2, margins \o <<Fl(height) - y - h>>>>

\* returns <<Alignment, <<MarginL, MarginR, MarginV>>>>
_get_pos(x, y, w_, h) ==
    LET margins == <<x, Fl(width) - x - w_>>
    IN  IF y < Fl(height \div 2)
          THEN IF x < Fl(width \div 2) THEN <<7, margins \o <<y>>>>
               ELSE IF x > Fl(width \div 2) THEN <<9, margins \o <<y>>>>
               ELSE <<8, margins \o <<y>>>>
        ELSE IF y > Fl(height \div 2)
          THEN IF x < Fl(width \div 2) THEN <<1, margins \o <<Fl(height) - y - h>>>>
               ELSE IF x > Fl(width \div 2) THEN <<3, margins \o <<Fl(height) - y - h>>>>
               ELSE <<2, margins \o <<Fl(height) - y - h>>>>
        ELSE IF x < Fl(width \div 2) THEN <<4, margins \o <<0>>>>
             ELSE IF x > Fl(width \div 2) THEN <<6, margins \o <<0>>>>
             ELSE <<5, margins \o <<0>>>>

\* ------------------------------------------------------- the input documents
Ids == {"a1", "a2"}
Types == {"text", "highlight"}
\* each.find('TEXT'): None, or an element whose .text is None or a string
TextChildren == {None, [text |-> None], [text |-> [str |-> "hello"]]}
\* the x, y, w, h attributes of the region entry the box is read from
Geometries == {<<"0", "0", "20", "10">>, <<"90", "50", "10", "10">>}
\* the t attributes of the first and of the second region entry
Timings == {<<"1000", "2000">>, <<"2000", "1000">>, <<"1000", "900">>,
            <<"never", "2000">>, <<"1000", "never">>}
Box(t, g) == [t |-> t, x |-> g[1], y |-> g[2], w |-> g[3], h |-> g[4]]
LaterBox == Box("2000", <<"0", "0", "20", "10">>)

\* the region entries of a <movingRegion>: none, one, or two and more
BoxLists ==
    {<<>>}
    \cup {<<Box(ts[1], g)>> : ts \in {u \in Timings : MaxBoxes >= 1},
                              g \in Geometries}
    \cup {<<Box(ts[1], g), Box(ts[2], g)>> \o [i \in 1..(k - 2) |-> LaterBox] :
            ts \in Timings, g \in Geometries, k \in 2..MaxBoxes}

\* each.find('segment').find('movingRegion'): None when either is missing,
\* else the entries of the region, all of one kind
MovingRegions ==
    {None} \cup {[kind |-> k, boxes |-> bs] :
                   k \in {"rectRegion", "anchoredRegion"}, bs \in BoxLists}

\* each.find('appearance')
Appearances == {None, [fgColor |-> "16777215", bgColor |-> "255"]}

Annotation ==
    [id : Ids, type : Types, TEXT : TextChildren,
     movingRegion : MovingRegions, appearance : Appearances]

\* moving_region.findall(kind)
FindAll(region, kind) == IF region.kind = kind THEN region.boxes ELSE <<>>


\* ------------------------------------------------- the body of the for loop
\* One pass of the loop body of _parse_xml over the element a, from the
\* collections ev and st under interpreter version v: the collections after
\* it, the line it printed and the exception it raised.
Skipped(ev, st, msg) == [events |-> ev, styles |-> st, out |-> msg, err |-> "none"]
Raised(ev, st, e) == [events |-> ev, styles |-> st, out |-> "none", err |-> e]

\* each.get('type') != "text"
NotText_never(a) == FALSE
NotText(a) == a.type # "text"

\* "never" in (t1, t2)
NeverShown_start(t1, t2) == "never" = t1
NeverShown(t1, t2) == "never" \in {t1, t2}

\* self.events.update({...}) and self.styles.update({...})
Insert_events_only(ev, st, ant_id, e, s) ==
    [events |-> Update(ev, [k \in {ant_id} |-> e]), styles |-> st,
     out |-> "none", err |-> "none"]
Insert(ev, st, ant_id, e, s) ==
    [events |-> Update(ev, [k \in {ant_id} |-> e]),
     styles |-> Update(st, [k \in {ant_id} |-> s]),
     out |-> "none", err |-> "none"]

ParseBody(a, ev, st, v) ==
    LET ant_id == a.id IN
    IF NotText(a)
      THEN Skipped(ev, st, "Skipping non-text annotation with id: " \o ant_id)
    ELSE IF a.TEXT = None
      THEN Skipped(ev, st, "Skipping empty annotation with id: " \o ant_id)
    ELSE IF a.TEXT.text = None
      THEN Raised(ev, st, "AttributeError")
    ELSE IF a.movingRegion = None
      THEN Raised(ev, st, "AttributeError")
    ELSE
    LET text == Encode(a.TEXT.text, v)
        moving_region == a.movingRegion
        rect == FindAll(moving_region, "rectRegion")
        box == IF rect = <<>> THEN FindAll(moving_region, "anchoredRegion")
               ELSE rect
    IN
    IF box = <<>>
      THEN Skipped(ev, st, "No known regions inside <movingRegion>? Skipping...")
    ELSE IF Len(box) < 2
      THEN Raised(ev, st, "IndexError")
    ELSE
    LET t1 == StrMin(box[1].t, box[2].t)
        t2 == StrMax(box[1].t, box[2].t)
    IN
    IF NeverShown(t1, t2)
      THEN Skipped(ev, st, "Found annotation that shouldn't be shown, skipping...")
    ELSE
    LET pos == _get_pos(Float[box[1].x], Float[box[1].y],
                        Float[box[1].w], Float[box[1].h])
        align == pos[1]
        margins == pos[2]
        fgColor == IF a.appearance # None THEN a.appearance.fgColor ELSE "1"
        bgColor == IF a.appearance # None THEN a.appearance.bgColor ELSE "0"
    IN
    Insert(ev, st, ant_id,
           [Text |-> text, Start |-> t1, End |-> t2],
           [PrimaryColour |-> fgColor, BackColour |-> bgColor,
            Alignment |-> align, MarginL |-> margins[1],
            MarginR |-> margins[2], MarginV |-> margins[3]])

\* ------------------------------------------------------------ the sections
Script_Info == <<"[Script Info]", "ScriptType: V4.00+", "PlayResX: 100",
                 "PlayResY: 100">>

V4_Styles_Header ==
    <<"[V4 Styles]",
      "Format: Name, Fontname, Fontsize, PrimaryColour, SecondaryColour, "
        \o "TertiaryColour, BackColour, Bold, Italic, BorderStyle, Outline, "
        \o "Shadow, Alignment, MarginL, MarginR, MarginV, AlphaLevel, Encoding">>

Events_Header ==
    <<"[Events]",
      "Format: Marked, Start, End, Style, Name, MarginL, MarginR, MarginV, "
        \o "Effect, Text">>

misc_data_styles ==
    [Fontname |-> "Arial", Fontsize |-> "4.5", Bold |-> "0", Italic |-> "0",
     BorderStyle |-> "1", Outline |-> "0.1", Shadow |-> "0.2", Encoding |-> "0"]

misc_data_events_start ==
    [Marked |-> "Marked=0", Name |-> "Speaker", MarginL |-> "0",
     MarginR |-> "0", MarginV |-> "0", Effect |-> "", Start |-> "0"]

misc_data_events ==
    [Marked |-> "Marked=0", Name |-> "Speaker", MarginL |-> "0",
     MarginR |-> "0", MarginV |-> "0", Effect |-> ""]

\* the Style line of the record data under the name name, without its "\n";
\* Alignment is an int and the margins are floats
StyleLine(name, data) ==
    "Style: " \o name \o "," \o data.Fontname \o "," \o data.Fontsize \o ","
      \o data.PrimaryColour \o "," \o data.PrimaryColour \o ","
      \o data.PrimaryColour \o "," \o data.BackColour \o "," \o data.Bold \o ","
      \o data.Italic \o "," \o data.BorderStyle \o "," \o data.Outline \o ","
      \o data.Shadow \o "," \o ToString(data.Alignment) \o ","
      \o FloatStr(data.MarginL) \o "," \o FloatStr(data.MarginR) \o ","
      \o FloatStr(data.MarginV) \o ",0," \o data.Encoding

\* the Dialogue line of the record data under the name name, without its "\n"
DialogueLine(name, data) ==
    "Dialogue: " \o data.Marked \o "," \o data.Start \o "," \o data.End \o ","
      \o name \o "," \o data.Name \o "," \o data.MarginL \o ","
      \o data.MarginR \o "," \o data.MarginV \o "," \o data.Effect \o ","
      \o FormatText(data.Text)

\* what save() writes, call by call
Chunks == <<Script_Info, <<"">>, V4_Styles, <<"">>, Events, <<"">>>>

RECURSIVE Concat(_)
Concat(ss) == IF ss = <<>> THEN <<>> ELSE Head(ss) \o Concat(Tail(ss))

\* ----------------------------------------------------------------- actions
Running == err = "none"

Init ==
    /\ pc = "main"
    /\ err = "none"
    /\ py \in {2, 3}
    /\ each = None
    /\ n = 0
    /\ events = <<>>
    /\ styles = <<>>
    /\ out = "none"
    /\ V4_Styles = V4_Styles_Header
    /\ Events = Events_Header
    /\ done_s = {}
    /\ done_e = {}
    /\ file = {}
    /\ w = 0
    /\ args = <<>>
    /\ ret = <<>>

\* __main__: no video id, or --help / -h
Usage ==
    /\ pc = "main" /\ Running
    /\ pc' = "exit"
    /\ out' = "Usage: youtube-ass.py <youtube video id>"
    /\ UNCHANGED <<err, py, each, n, events, styles, V4_Styles, Events,
                   done_s, done_e, file, w, args, ret>>

\* __main__: xml_data = urlopen(url).read()
Fetch_creating_file ==
    /\ pc = "main" /\ Running
    /\ \/ pc' = "init" /\ err' = err /\ file' = {<<>>}
       \/ pc' = pc /\ err' = "URLError" /\ file' = {<<>>}
    /\ UNCHANGED <<py, each, n, events, styles, out, V4_Styles, Events,
                   done_s, done_e, w, args, ret>>

Fetch ==
    /\ pc = "main" /\ Running
    /\ \/ pc' = "init" /\ err' = err
       \/ pc' = pc /\ err' = "URLError"
    /\ UNCHANGED <<py, each, n, events, styles, out, V4_Styles, Events,
                   done_s, done_e, file, w, args, ret>>

\* __init__ up to the for statement of _parse_xml: fromstring(string), then
\* self.xml.find('annotations').findall('annotation')
FromString ==
    /\ pc = "init" /\ Running
    /\ \/ pc' = "parse" /\ err' = err
       \/ pc' = pc /\ err' = "ParseError"
       \/ pc' = "parse" /\ err' = "AttributeError"
    /\ UNCHANGED <<py, each, n, events, styles, out, V4_Styles, Events,
                   done_s, done_e, file, w, args, ret>>

\* _parse_xml: the for statement binds each to the next <annotation> element
ForNext(inputs) ==
    /\ pc = "parse" /\ Running
    /\ n < MaxAnnotations
    /\ \E a \in inputs : each' = a
    /\ n' = n + 1
    /\ pc' = "body"
    /\ UNCHANGED <<err, py, events, styles, out, V4_Styles, Events, done_s,
                   done_e, file, w, args, ret>>

\* _parse_xml: the body of the for loop, on each; each is dead afterwards,
\* until the for statement binds it again
ParseAnnotation ==
    /\ pc = "body" /\ Running
    /\ LET r == ParseBody(each, events, styles, py) IN
         /\ events' = r.events
         /\ styles' = r.styles
         /\ out' = IF r.out = "none" THEN out ELSE r.out
         /\ err' = r.err
         /\ pc' = IF r.err = "none" THEN "parse" ELSE pc
    /\ each' = None
    /\ UNCHANGED <<py, n, V4_Styles, Events, done_s, done_e, file, w,
                   args, ret>>

\* _parse_xml: the iterator is exhausted; _convert_to_ass begins
EndParse ==
    /\ pc = "parse" /\ Running
    /\ pc' = "write_styles"
    /\ UNCHANGED <<err, py, each, n, events, styles, out, V4_Styles, Events,
                   done_s, done_e, file, w, args, ret>>

\* _write_styles: one pass of the for loop, over a key not yet visited
WriteStyle ==
    /\ pc = "write_styles" /\ Running
    /\ \E name \in DOMAIN styles \ done_s :
         LET data == Update(styles[name], misc_data_styles) IN
         /\ styles' = [styles EXCEPT ![name] = data]
         /\ V4_Styles' = Append(V4_Styles, StyleLine(name, data))
         /\ done_s' = done_s \cup {name}
    /\ UNCHANGED <<pc, err, py, each, n, events, out, Events, done_e, file,
                   w, args, ret>>

\* _write_styles returns; _write_events begins
EndStyles ==
    /\ pc = "write_styles" /\ Running
    /\ done_s = DOMAIN styles
    /\ pc' = "write_events"
    /\ UNCHANGED <<err, py, each, n, events, styles, out, V4_Styles, Events,
                   done_s, done_e, file, w, args, ret>>

\* _write_events: one pass of the for loop, over a key not yet visited
WriteEvent ==
    /\ pc = "write_events" /\ Running
    /\ \E name \in DOMAIN events \ done_e :
         LET data == Update(events[name], misc_data_events) IN
         /\ events' = [events EXCEPT ![name] = data]
         /\ Events' = Append(Events, DialogueLine(name, data))
         /\ done_e' = done_e \cup {name}
    /\ UNCHANGED <<pc, err, py, each, n, styles, out, V4_Styles, done_s, file,
                   w, args, ret>>

\* _write_events and __init__ return; ass.save(...) is called
EndEvents ==
    /\ pc = "write_events" /\ Running
    /\ done_e = DOMAIN events
    /\ pc' = "save"
    /\ UNCHANGED <<err, py, each, n, events, styles, out, V4_Styles, Events,
                   done_s, done_e, file, w, args, ret>>

\* save: open(filename, 'w')
Open ==
    /\ pc = "save" /\ Running
    /\ \/ pc' = "write" /\ file' = {<<>>} /\ err' = err
       \/ pc' = pc /\ file' = file /\ err' = "IOError"
    /\ UNCHANGED <<py, each, n, events, styles, out, V4_Styles, Events,
                   done_s, done_e, w, args, ret>>

\* save: one f.write(...); on a failure the with statement closes the file
\* with what the earlier calls wrote
Write ==
    /\ pc = "write" /\ Running
    /\ w < Len(Chunks)
    /\ \/ /\ file' = {content \o Chunks[w + 1] : content \in file}
          /\ w' = w + 1
          /\ err' = err
       \/ /\ file' = file
          /\ w' = w
          /\ err' = "IOError"
    /\ UNCHANGED <<pc, py, each, n, events, styles, out, V4_Styles, Events,
                   done_s, done_e, args, ret>>

\* save: the with statement closes the file
Close ==
    /\ pc = "write" /\ Running
    /\ w = Len(Chunks)
    /\ pc' = "done"
    /\ UNCHANGED <<err, py, each, n, events, styles, out, V4_Styles, Events,
                   done_s, done_e, file, w, args, ret>>

Next ==
    \/ Usage
    \/ Fetch
    \/ FromString
    \/ ForNext(Annotation)
    \/ ParseAnnotation
    \/ EndParse
    \/ WriteStyle
    \/ EndStyles
    \/ WriteEvent
    \/ EndEvents
    \/ Open
    \/ Write
    \/ Close

Spec == Init /\ [][Next]_vars

\* ------------------------- documents whose every annotation is the same one
\* the text annotation "a1" at box (0, 0, 20, 10), without an appearance
\* element, with the box times "1000" and "2000"
SingleAnnotation ==
    {a \in Annotation :
       /\ a.id = "a1" /\ a.type = "text" /\ a.TEXT = [text |-> [str |-> "hello"]]
       /\ a.appearance = None
       /\ a.movingRegion # None
       /\ Len(a.movingRegion.boxes) >= 2
       /\ LET b == a.movingRegion.boxes IN
            /\ <<b[1].x, b[1].y, b[1].w, b[1].h>> = <<"0", "0", "20", "10">>
            /\ {b[1].t, b[2].t} = {"1000", "2000"}}

NextSingle ==
    \/ Usage
    \/ Fetch
    \/ FromString
    \/ ForNext(SingleAnnotation)
    \/ ParseAnnotation
    \/ EndParse
    \/ WriteStyle
    \/ EndStyles
    \/ WriteEvent
    \/ EndEvents
    \/ Open
    \/ Write
    \/ Close

SpecSingle == Init /\ [][NextSingle]_vars

\* ------------------------------------------- _get_pos on its own arguments
Coords == {Fl(0), Fl(45), 99, Fl(50), 101, Fl(90), Fl(100)}
Sizes == {Fl(0), Fl(10), Fl(20)}

InitPos ==
    /\ pc = "_get_pos"
    /\ err = "none"
    /\ py \in {2, 3}
    /\ each = None
    /\ n = 0
    /\ events = <<>>
    /\ styles = <<>>
    /\ out = "none"
    /\ V4_Styles = V4_Styles_Header
    /\ Events = Events_Header
    /\ done_s = {}
    /\ done_e = {}
    /\ file = {}
    /\ w = 0
    /\ args \in Coords \X Coords \X Sizes \X Sizes
    /\ ret = <<>>

Call_get_pos ==
    /\ pc = "_get_pos"
    /\ ret = <<>>
    /\ ret' = _get_pos(args[1], args[2], args[3], args[4])
    /\ UNCHANGED <<pc, err, py, each, n, events, styles, out, V4_Styles,
                   Events, done_s, done_e, file, w, args>>

NextPos == Call_get_pos

SpecPos == InitPos /\ [][NextPos]_vars

\* =================================================================== claims
\* the step of the loop body leaves the collections alone and the loop goes on
SkippedStep ==
    /\ events' = events
    /\ styles' = styles
    /\ err' = "none"
    /\ pc' = "parse"

\* C1: in every state of the parse and after it, the key set of events
\* equals the key set of styles.
C1_SameKeys == DOMAIN events = DOMAIN styles

\* a retained and a skipped annotation have both been processed
C1_Witness ==
    /\ pc = "parse" /\ n = 2
    /\ DOMAIN events # {}
    /\ out # "none"

\* a text annotation with text content whose moving region holds one entry
OneBoxText(a) ==
    /\ a.type = "text"
    /\ a.TEXT # None /\ a.TEXT.text # None
    /\ a.movingRegion # None
    /\ Len(a.movingRegion.boxes) = 1

\* C2: a text annotation whose moving region holds exactly one region entry
\* is skipped: the loop body adds no record, raises nothing, and the loop
\* goes on to the next annotation.
C2_OneBoxSkipped ==
    [][(pc = "body" /\ OneBoxText(each)) => SkippedStep]_vars

\* C3: a text annotation without text content, whether its TEXT child is
\* missing or present but empty, is skipped: the loop body adds no record,
\* raises nothing, and the loop goes on to the next annotation.
C3_NoTextSkipped ==
    [][(/\ pc = "body"
        /\ each.type = "text"
        /\ (each.TEXT = None \/ each.TEXT.text = None)) => SkippedStep]_vars

NeverTimed(a) ==
    /\ a.type = "text"
    /\ a.TEXT # None /\ a.TEXT.text # None
    /\ a.movingRegion # None
    /\ Len(a.movingRegion.boxes) >= 2
    /\ LET b == a.movingRegion.boxes IN
         "never" \in {StrMin(b[1].t, b[2].t), StrMax(b[1].t, b[2].t)}

\* C5: no event record ever has Start or End equal to "never", and an
\* annotation whose resolved start or end time is "never" adds no entry to
\* events or styles.
C5_NeverExcluded ==
    /\ [](\A i \in DOMAIN events :
            events[i].Start # "never" /\ events[i].End # "never")
    /\ [][(pc = "body" /\ NeverTimed(each)) => SkippedStep]_vars

\* a "never" annotation was skipped after an annotation had been retained
C5_Witness ==
    /\ pc = "parse"
    /\ out = "Found annotation that shouldn't be shown, skipping..."
    /\ DOMAIN events # {}

\* _get_pos has returned for the box (45, 45, 10, 10)
C6_Called == args = <<Fl(45), Fl(45), Fl(10), Fl(10)>> /\ ret # <<>>

\* C6 as stated: _get_pos(45, 45, 10, 10) returns alignment 5 with margins
\* (left 45, right 45, vertical 0).
C6_DeadCentre == C6_Called => ret = <<5, <<Fl(45), Fl(45), Fl(0)>>>>

\* C6 as amended: _get_pos(45, 45, 10, 10) returns alignment 7 with margins
\* (left 45, right 45, vertical 45), the corner (45, 45) lying left of and
\* above the midpoint; the dead-centre case is the corner (50, 50), for which
\* _get_pos(50, 50, 10, 10) returns alignment 5 with margins (50, 40, 0).
C6_TopLeft ==
    /\ C6_Called => ret = <<7, <<Fl(45), Fl(45), Fl(45)>>>>
    /\ (args = <<Fl(50), Fl(50), Fl(10), Fl(10)>> /\ ret # <<>>)
         => ret = <<5, <<Fl(50), Fl(40), Fl(0)>>>>

\* the reference mapping of the position mapper on the 100x100 canvas
RefBand(y) == IF y < Fl(50) THEN {7, 8, 9}
              ELSE IF y > Fl(50) THEN {1, 2, 3} ELSE {4, 5, 6}
Lowest(S) == CHOOSE m \in S : \A k \in S : m <= k
Highest(S) == CHOOSE m \in S : \A k \in S : m >= k
RefAlignment(x, y) ==
    IF x < Fl(50) THEN Lowest(RefBand(y))
    ELSE IF x > Fl(50) THEN Highest(RefBand(y))
    ELSE CHOOSE m \in RefBand(y) : m # Lowest(RefBand(y)) /\ m # Highest(RefBand(y))
RefMarginV(y, h) ==
    IF y < Fl(50) THEN y ELSE IF y > Fl(50) THEN Fl(100) - y - h ELSE 0

\* C7: for every box, _get_pos returns the reference mapping: MarginL = x,
\* MarginR = 100 - x - w, the band and MarginV by y against 50, the numeral
\* within the band by x against 50; (0,0,10,10) maps to (7, 0, 90, 0),
\* (90,90,10,10) maps to (3, 90, 0, 0), and the alignment is in 1..9.
C7_Reference ==
    ret # <<>> =>
      /\ ret[1] = RefAlignment(args[1], args[2])
      /\ ret[1] \in 1..9
      /\ ret[2] = <<args[1], Fl(100) - args[1] - args[3],
                    RefMarginV(args[2], args[4])>>
      /\ args = <<Fl(0), Fl(0), Fl(10), Fl(10)>>
           => ret = <<7, <<Fl(0), Fl(90), Fl(0)>>>>
      /\ args = <<Fl(90), Fl(90), Fl(10), Fl(10)>>
           => ret = <<3, <<Fl(90), Fl(0), Fl(0)>>>>

\* _get_pos has returned for the box (90, 90, 10, 10)
C7_Witness ==
    /\ args = <<Fl(90), Fl(90), Fl(10), Fl(10)>>
    /\ ret = <<3, <<Fl(90), Fl(0), Fl(0)>>>>

\* the lines of the section of the saved document c that starts with title
Section(c, title) ==
    IF \E i \in 1..Len(c) : c[i] = title
      THEN LET i == CHOOSE k \in 1..Len(c) : c[k] = title
               j == CHOOSE k \in (i + 1)..Len(c) :
                      c[k] = "" /\ \A m \in (i + 1)..(k - 1) : c[m] # ""
           IN  {c[m] : m \in (i + 1)..(j - 1)}
      ELSE {}

\* C8: the document saved from an XML document with the one annotation of
\* SingleAnnotation has the line
\* "Style: a1,Arial,4.5,1,1,1,0,0,0,1,0.1,0.2,7,0,80,0,0,0" in its styles
\* section and "Dialogue: Marked=0,1000,2000,a1,Speaker,0,0,0,,hello" in its
\* events section.
C8_EndToEnd ==
    (pc = "done" /\ n = 1) =>
      \A c \in file :
        /\ "Style: a1,Arial,4.5,1,1,1,0,0,0,1,0.1,0.2,7,0,80,0,0,0"
             \in Section(c, "[V4 Styles]")
        /\ "Dialogue: Marked=0,1000,2000,a1,Speaker,0,0,0,,hello"
             \in Section(c, "[Events]")

\* both sections hold a line for every record
Assembled ==
    /\ done_s = DOMAIN styles
    /\ done_e = DOMAIN events
    /\ Len(V4_Styles) = Len(V4_Styles_Header) + Cardinality(DOMAIN styles)
    /\ Len(Events) = Len(Events_Header) + Cardinality(DOMAIN events)

\* C9 as stated: a run that has ended in a fatal error has left no output
\* file that holds only part of the document.
C9_NoPartialFile ==
    err # "none" => \A c \in file : c = Concat(Chunks)

\* C9 as amended: the output file is opened only after parsing and the
\* serialization of all sections have completed, so a run that ends in a
\* fatal error before the writes of save (failed fetch, unparseable XML, an
\* exception in _parse_xml, a failed open) leaves no output file, and a run
\* that completes leaves the whole document; only a failed write inside save
\* leaves a file, which then holds part of the document.
C9_OpenedAfterAssembly ==
    /\ file # {} => (pc \in {"write", "done"} /\ Assembled)
    /\ (err # "none" /\ pc # "write") => file = {}
    /\ pc = "done" => file = {Concat(Chunks)}
    /\ (err # "none" /\ pc = "write") =>
         file = {Concat(SubSeq(Chunks, 1, w))} /\ w < Len(Chunks)

\* _parse_xml raised after a record had been built: no file
C9_Witness ==
    /\ pc = "body" /\ err # "none"
    /\ DOMAIN events # {}
    /\ file = {}

\* C10 as stated: serialization leaves the events collection exactly as
\* _parse_xml built it.
C10_EventsImmutable ==
    [][(pc \in {"write_styles", "write_events"}) => events' = events]_vars

EventFields == {"Text", "Start", "End"}
EventMiscFields == {"Marked", "Name", "MarginL", "MarginR", "MarginV", "Effect"}

\* the step keeps the keys of events and the parsed fields of every record
EventValuesKeptStep ==
    /\ DOMAIN events' = DOMAIN events
    /\ \A i \in DOMAIN events : \A f \in EventFields :
         events'[i][f] = events[i][f]

\* C10 as amended: serialization leaves the key set of events and the Text,
\* Start and End values of every record as _parse_xml built them, but
\* _write_events adds the fields Marked, Name, MarginL, MarginR, MarginV and
\* Effect to every record.
C10_EventValuesKept ==
    /\ [][(pc \in {"write_styles", "write_events"}) => EventValuesKeptStep]_vars
    /\ [](\A i \in DOMAIN events :
            DOMAIN events[i] =
              IF i \in done_e THEN EventFields \cup EventMiscFields
              ELSE EventFields)

\* serialization has finished on a non-empty events collection
C10_Witness ==
    /\ pc = "save"
    /\ DOMAIN events # {}

====
